---- MODULE Spec2Model ----
(***************************************************************************)
(* The camera fan-out pipeline of backend-fastapi/main.py: the capture     *)
(* thread (image_updater), the per-frame broadcast threads and their       *)
(* send_to_all coroutines (update_websockets_for_quality), and the         *)
(* websocket connection handlers (websocket_endpoint), all sharing         *)
(* active_sockets, frames_needed and frames under one threading.Lock.      *)
(***************************************************************************)
EXTENDS Integers, Sequences, FiniteSets, TLC

\* ---------------------------------------------------------------- bounds
NumConns == 2
MaxCycles == 2
\* the clock stops being advanced by Tick at this reading
MaxTime == 5

\* ------------------------------------------------------- program constants
MinQuality == 30
MaxQuality == 95
\* interval = 1 / 34, in clock ticks (one tick is half an interval)
Interval == 2

Conns == 1..NumConns
\* The quality path parameters a client may present: both boundaries of the
\* accepted range and the first value outside it on either side.
ReqQualities == {MinQuality - 1, MinQuality, MaxQuality, MaxQuality + 1}

\* b'' : the default of frames.get(quality, b'')
EmptyBytes == <<>>

VARIABLES
    active_sockets,      \* dict[WebSocket, int]: function on the registered connections
    frames_needed,       \* Counter, as the sequence of its <<key, count>> items in insertion order
    frames,              \* dict[int, bytes]: function on the qualities stored so far
    lock,                \* threading.Lock: "free", or the kind of thread holding it
    cap_pc,              \* position of the capture thread in image_updater
    cycle,               \* number of camera reads made so far (identifies the raw frame)
    ret,                 \* ret of the last camera.read()
    required_qualities,  \* the list built under the lock in image_updater
    qi,                  \* index of the for loop over required_qualities
    start_wanted,        \* history: qualities with positive demand when the cycle started
    snap_wanted,         \* history: qualities with positive demand when the list was built
    broadcasts,          \* broadcast units in flight, keyed by <<cycle, quality>>
    hpc,                 \* position of each connection's websocket_endpoint coroutine
    quality,             \* the quality path parameter of each connection
    transport,           \* the client's side of each connection
    sent,                \* history: what send_bytes delivered to each connection
    ndec,                \* history: executions of the decrement on behalf of each connection
    attempts,            \* history: removal attempts made for each connection
    now,                 \* time.perf_counter(), in ticks
    start_time,          \* start_time of image_updater
    last_time,           \* last_time of image_updater
    shutdown_pc,         \* position of shutdown_event: "up", "releasing", "released"
    camera,              \* cv2.VideoCapture(0): "opened", "released", or "undefined"
    server_closed        \* the connections the server has called websocket.close() on

vars == <<active_sockets, frames_needed, frames, lock, cap_pc, cycle, ret,
          required_qualities, qi, start_wanted, snap_wanted, broadcasts, hpc,
          quality, transport, sent, ndec, attempts, now, start_time, last_time,
          shutdown_pc, camera, server_closed>>

capvars == <<cap_pc, cycle, ret, required_qualities, qi, start_wanted, snap_wanted,
            start_time, last_time>>
sysvars == <<now, shutdown_pc, camera>>
connvars == <<hpc, quality, transport>>
regvars == <<active_sockets, frames_needed, ndec, attempts>>

\* ------------------------------------------------------------ collections
Max(a, b) == IF a >= b THEN a ELSE b

CounterHas(cnt, q) == \E i \in 1..Len(cnt) : cnt[i][1] = q

\* Counter.__getitem__: a missing key counts 0
CounterGet(cnt, q) ==
    IF CounterHas(cnt, q)
    THEN cnt[CHOOSE i \in 1..Len(cnt) : cnt[i][1] = q][2]
    ELSE 0

\* Counter.__setitem__: an existing key keeps its place, a new key goes last
CounterSet(cnt, q, n) ==
    IF CounterHas(cnt, q)
    THEN [i \in 1..Len(cnt) |-> IF cnt[i][1] = q THEN <<q, n>> ELSE cnt[i]]
    ELSE Append(cnt, <<q, n>>)

\* faulty variant: every key of the counter is wanted, whatever its count
WantedQualitiesAll(cnt) == [i \in 1..Len(cnt) |-> cnt[i][1]]

\* faulty variant: the test is count > 1
WantedQualitiesAboveOne(cnt) ==
    LET sel == SelectSeq(cnt, LAMBDA p : p[2] > 1) IN
    [i \in 1..Len(sel) |-> sel[i][1]]

\* [q for q, count in frames_needed.items() if count > 0]
RECURSIVE WantedQualities(_)
WantedQualities(cnt) ==
    IF cnt = <<>> THEN <<>>
    ELSE IF Head(cnt)[2] > 0
         THEN <<Head(cnt)[1]>> \o WantedQualities(Tail(cnt))
         ELSE WantedQualities(Tail(cnt))

DictSet(d, k, v) == [x \in DOMAIN d \cup {k} |-> IF x = k THEN v ELSE d[x]]
DictDel(d, k) == [x \in DOMAIN d \ {k} |-> d[x]]
DictGet(d, k, default) == IF k \in DOMAIN d THEN d[k] ELSE default

\* cv2.imencode(".jpg", frame, [IMWRITE_JPEG_QUALITY, quality]).tobytes():
\* the bytes are determined by the raw frame (the cycle that read it) and the quality.
Encode(c, q) == <<c, q>>

\* ------------------------------------------------------------- the registry
Registry == [as |-> active_sockets, fn |-> frames_needed, dec |-> ndec, att |-> attempts]

\* faulty variant: the lower bound compared with <=
InvalidQualityOffByOne(q) == q <= MinQuality \/ q > MaxQuality

\* quality < 30 or quality > 95
InvalidQuality(q) == q < MinQuality \/ q > MaxQuality

\* faulty variant: the counter is set to one, not incremented
SubscribeSetsOne(reg, ws, q) ==
    [reg EXCEPT !.as = DictSet(reg.as, ws, q),
                !.fn = CounterSet(reg.fn, q, 1)]

\* active_sockets[websocket] = quality; frames_needed[quality] += 1
Subscribe(reg, ws, q) ==
    [reg EXCEPT !.as = DictSet(reg.as, ws, q),
                !.fn = CounterSet(reg.fn, q, CounterGet(reg.fn, q) + 1)]

\* faulty variant: the decrement is outside the membership test
UnsubscribeUnguarded(reg, ws) ==
    LET q == quality[ws] IN
    [as |-> DictDel(reg.as, ws),
     fn |-> CounterSet(reg.fn, q, Max(CounterGet(reg.fn, q) - 1, 0)),
     dec |-> [reg.dec EXCEPT ![ws] = @ + 1],
     att |-> [reg.att EXCEPT ![ws] = @ + 1]]

\* faulty variant: the connection is left in active_sockets
UnsubscribeKeepsSocket(reg, ws) ==
    IF ws \in DOMAIN reg.as
    THEN LET q == reg.as[ws] IN
         [as |-> reg.as,
          fn |-> CounterSet(reg.fn, q, Max(CounterGet(reg.fn, q) - 1, 0)),
          dec |-> [reg.dec EXCEPT ![ws] = @ + 1],
          att |-> [reg.att EXCEPT ![ws] = @ + 1]]
    ELSE [reg EXCEPT !.att[ws] = @ + 1]

\* if websocket in active_sockets: q = ...; frames_needed[q] = max(.. - 1, 0); del ...
Unsubscribe(reg, ws) ==
    IF ws \in DOMAIN reg.as
    THEN LET q == reg.as[ws] IN
         [as |-> DictDel(reg.as, ws),
          fn |-> CounterSet(reg.fn, q, Max(CounterGet(reg.fn, q) - 1, 0)),
          dec |-> [reg.dec EXCEPT ![ws] = @ + 1],
          att |-> [reg.att EXCEPT ![ws] = @ + 1]]
    ELSE [reg EXCEPT !.att[ws] = @ + 1]

\* for i, success in enumerate(results): if not success and sockets[i] in active_sockets: ...
RECURSIVE EvictFailed(_, _)
EvictFailed(reg, failed) ==
    IF failed = {} THEN reg
    ELSE LET ws == CHOOSE x \in failed : \A y \in failed : x <= y IN
         EvictFailed(Unsubscribe(reg, ws), failed \ {ws})

\* faulty variant: the quality filter is missing
SubscribersAtAnyQuality(as, q) == DOMAIN as

\* sockets = [ws for ws, q in active_sockets.items() if q == quality]
SubscribersAt(as, q) == {ws \in DOMAIN as : as[ws] = q}

SetRegistry(reg) ==
    /\ active_sockets' = reg.as
    /\ frames_needed' = reg.fn
    /\ ndec' = reg.dec
    /\ attempts' = reg.att

\* ------------------------------------------------------------------- Init
Init ==
    /\ active_sockets = <<>>
    /\ frames_needed = <<>>
    /\ frames = <<>>
    /\ lock = "free"
    /\ cap_pc = "read"
    /\ cycle = 0
    /\ ret = TRUE
    /\ required_qualities = <<>>
    /\ qi = 1
    /\ start_wanted = {}
    /\ snap_wanted = {}
    /\ broadcasts = <<>>
    /\ hpc = [c \in Conns |-> "idle"]
    /\ quality = [c \in Conns |-> 0]
    /\ transport = [c \in Conns |-> "none"]
    /\ sent = [c \in Conns |-> <<>>]
    /\ ndec = [c \in Conns |-> 0]
    /\ attempts = [c \in Conns |-> 0]
    /\ now = 0
    /\ start_time = 0
    /\ last_time = 0
    /\ shutdown_pc = "up"
    /\ camera = "opened"
    /\ server_closed = {}

\* ------------------------------------------------------------- the clients
\* the client closes its session or its transport breaks
ClientClose(c) ==
    /\ transport[c] \in {"open", "stalled"}
    /\ transport' = [transport EXCEPT ![c] = "closed"]
    /\ UNCHANGED <<regvars, frames, lock, capvars, broadcasts, hpc, quality, sent>>
    /\ UNCHANGED <<sysvars, server_closed>>

\* the client stops reading: sends to it block from now on
Stall(c) ==
    /\ transport[c] = "open"
    /\ transport' = [transport EXCEPT ![c] = "stalled"]
    /\ UNCHANGED <<regvars, frames, lock, capvars, broadcasts, hpc, quality, sent>>
    /\ UNCHANGED <<sysvars, server_closed>>

\* ---------------------------------------------------- websocket_endpoint
\* a client connects with path parameter q: validation, then close or accept
Connect(c, q) ==
    /\ hpc[c] = "idle"
    /\ quality' = [quality EXCEPT ![c] = q]
    /\ IF InvalidQuality(q)
       THEN /\ hpc' = [hpc EXCEPT ![c] = "rejected"]
            /\ transport' = [transport EXCEPT ![c] = "closed"]
            /\ server_closed' = server_closed \cup {c}
       ELSE /\ hpc' = [hpc EXCEPT ![c] = "accepted"]
            /\ transport' = [transport EXCEPT ![c] = "open"]
            /\ server_closed' = server_closed
    /\ UNCHANGED <<regvars, frames, lock, capvars, broadcasts, sent>>
    /\ UNCHANGED <<sysvars>>

\* with lock: active_sockets[websocket] = quality; frames_needed[quality] += 1
\* (no await inside the block: the coroutine takes the lock, runs and releases)
Register(c) ==
    /\ hpc[c] = "accepted"
    /\ lock = "free"
    /\ SetRegistry(Subscribe(Registry, c, quality[c]))
    /\ hpc' = [hpc EXCEPT ![c] = "serving"]
    /\ UNCHANGED <<frames, lock, capvars, broadcasts, quality, transport, sent>>
    /\ UNCHANGED <<sysvars, server_closed>>

\* faulty variant: the handler returns without the finally block
CleanupSkipsUnsubscribe(c) ==
    /\ hpc[c] = "serving"
    /\ transport[c] = "closed"
    /\ hpc' = [hpc EXCEPT ![c] = "closed"]
    /\ UNCHANGED <<regvars, frames, lock, capvars, broadcasts, quality, transport, sent>>
    /\ UNCHANGED <<sysvars, server_closed>>

\* receive_text raises on the closed session; the finally block removes the
\* connection under the lock and the handler returns
Cleanup(c) ==
    /\ hpc[c] = "serving"
    /\ transport[c] = "closed"
    /\ lock = "free"
    /\ SetRegistry(Unsubscribe(Registry, c))
    /\ hpc' = [hpc EXCEPT ![c] = "closed"]
    /\ UNCHANGED <<frames, lock, capvars, broadcasts, quality, transport, sent>>
    /\ UNCHANGED <<sysvars, server_closed>>

\* ------------------------------------------------------------ image_updater
\* faulty variant: leaving the block does not release the lock
LockKept(holder) == holder

\* the end of a "with lock:" block releases the lock, whoever holds it
LockOnExit(holder) == "free"

\* the qualities some connection is counted at
Demanded == {frames_needed[i][1] : i \in {j \in 1..Len(frames_needed) : frames_needed[j][2] > 0}}

\* faulty variant: the failed read is not skipped
AfterReadUnchecked(ok) == "snapshot"

\* if not ret: continue
AfterRead(ok) == IF ok THEN "snapshot" ELSE "read"

\* start_time = perf_counter(); ret, frame = camera.read(); if not ret: continue
CameraRead(ok) ==
    /\ cap_pc = "read"
    /\ cycle < MaxCycles
    /\ cycle' = cycle + 1
    /\ start_time' = now
    /\ ret' = ok
    /\ start_wanted' = Demanded
    /\ cap_pc' = AfterRead(ok)
    /\ UNCHANGED <<regvars, frames, lock, required_qualities, qi, snap_wanted, broadcasts,
                   connvars, sent>>
    /\ UNCHANGED <<sysvars, server_closed, last_time>>

SnapshotAcquire ==
    /\ cap_pc = "snapshot"
    /\ lock = "free"
    /\ lock' = "capture"
    /\ cap_pc' = "snapshot_cs"
    /\ UNCHANGED <<regvars, frames, cycle, ret, required_qualities, qi, start_wanted,
                   snap_wanted, broadcasts, connvars, sent>>
    /\ UNCHANGED <<sysvars, server_closed, start_time, last_time>>

Snapshot ==
    /\ cap_pc = "snapshot_cs"
    /\ required_qualities' = WantedQualities(frames_needed)
    /\ qi' = 1
    /\ snap_wanted' = Demanded
    /\ lock' = LockOnExit(lock)
    /\ cap_pc' = IF required_qualities' = <<>> THEN "pace" ELSE "encode"
    /\ UNCHANGED <<regvars, frames, cycle, ret, start_wanted, broadcasts, connvars, sent>>
    /\ UNCHANGED <<sysvars, server_closed, start_time, last_time>>

\* imencode of the frame at required_qualities[qi], then "with lock"
EncodeAcquire ==
    /\ cap_pc = "encode"
    /\ lock = "free"
    /\ lock' = "capture"
    /\ cap_pc' = "store_cs"
    /\ UNCHANGED <<regvars, frames, cycle, ret, required_qualities, qi, start_wanted,
                   snap_wanted, broadcasts, connvars, sent>>
    /\ UNCHANGED <<sysvars, server_closed, start_time, last_time>>

NewBroadcast == [pc |-> "start", frame_data |-> EmptyBytes, sockets |-> {}, results |-> <<>>]

\* frames[quality] = compressed; release; threading.Thread(...).start()
StoreSpawn ==
    /\ cap_pc = "store_cs"
    /\ LET q == required_qualities[qi] IN
       /\ frames' = DictSet(frames, q, Encode(cycle, q))
       /\ broadcasts' = DictSet(broadcasts, <<cycle, q>>, NewBroadcast)
    /\ lock' = LockOnExit(lock)
    /\ qi' = qi + 1
    /\ cap_pc' = IF qi + 1 > Len(required_qualities) THEN "pace" ELSE "encode"
    /\ UNCHANGED <<regvars, cycle, ret, required_qualities, start_wanted, snap_wanted,
                   connvars, sent>>
    /\ UNCHANGED <<sysvars, server_closed, start_time, last_time>>

\* faulty variant: the deadline restarts from the current time
NextDeadlineFromNow(last, t) == t + Interval

\* next_time = last_time + interval
NextDeadline(last, t) == last + Interval

\* elapsed = perf_counter() - start_time; sleep(max(interval - elapsed, 0));
\* next_time = last_time + interval; while perf_counter() < next_time: sleep(0.001);
\* last_time = next_time. Each sleep ends when its time is up; time lost after
\* the wake-up is time that passes before the next step.
Pace ==
    /\ cap_pc = "pace"
    /\ LET elapsed == now - start_time
           sleep_time == Max(Interval - elapsed, 0)
           woke == now + sleep_time
           next_time == NextDeadline(last_time, woke)
       IN /\ now' = Max(woke, next_time)
          /\ last_time' = next_time
    /\ cap_pc' = "read"
    /\ UNCHANGED <<regvars, frames, lock, cycle, ret, required_qualities, qi, start_wanted,
                   snap_wanted, broadcasts, connvars, sent>>
    /\ UNCHANGED <<shutdown_pc, camera, server_closed, start_time>>

\* ------------------------------------------- update_websockets_for_quality
ThreadAcquire(id) ==
    /\ id \in DOMAIN broadcasts
    /\ broadcasts[id].pc = "start"
    /\ lock = "free"
    /\ lock' = "thread"
    /\ broadcasts' = [broadcasts EXCEPT ![id].pc = "snap_cs"]
    /\ UNCHANGED <<regvars, frames, capvars, connvars, sent>>
    /\ UNCHANGED <<sysvars, server_closed>>

\* the snapshot under the lock, then the coroutine is scheduled and gathers its sends
ThreadSnapshot(id) ==
    /\ id \in DOMAIN broadcasts
    /\ broadcasts[id].pc = "snap_cs"
    /\ LET sockets == SubscribersAt(active_sockets, id[2]) IN
       broadcasts' = [broadcasts EXCEPT ![id] =
            [pc |-> "gather",
             frame_data |-> DictGet(frames, id[2], EmptyBytes),
             sockets |-> sockets,
             results |-> [ws \in sockets |-> "pending"]]]
    /\ lock' = LockOnExit(lock)
    /\ UNCHANGED <<regvars, frames, capvars, connvars, sent>>
    /\ UNCHANGED <<sysvars, server_closed>>

\* faulty variant: each send reads the cache again
SendPayloadLive(id) == DictGet(frames, id[2], EmptyBytes)

\* tasks = [safe_send(ws, frame_data) for ws in sockets]: every send carries the snapshot
SendPayload(id) == broadcasts[id].frame_data

\* faulty variant: the sends are awaited one after another, in snapshot order
SendReadyInTurn(id, ws) ==
    /\ broadcasts[id].results[ws] = "pending"
    /\ transport[ws] # "stalled"
    /\ \A other \in broadcasts[id].sockets :
          other < ws => broadcasts[id].results[other] # "pending"

\* results = await asyncio.gather(*tasks): each send is its own task, so a
\* send completes as soon as its own transport takes or refuses the data
SendReady(id, ws) ==
    /\ broadcasts[id].results[ws] = "pending"
    /\ transport[ws] # "stalled"

\* safe_send: send_bytes delivers the data, or raises and False is returned
SafeSend(id, ws) ==
    /\ id \in DOMAIN broadcasts
    /\ broadcasts[id].pc = "gather"
    /\ ws \in broadcasts[id].sockets
    /\ SendReady(id, ws)
    /\ IF transport[ws] = "open"
       THEN /\ sent' = [sent EXCEPT ![ws] = Append(@, <<id, SendPayload(id)>>)]
            /\ broadcasts' = [broadcasts EXCEPT ![id].results[ws] = "True"]
       ELSE /\ sent' = sent
            /\ broadcasts' = [broadcasts EXCEPT ![id].results[ws] = "False"]
    /\ UNCHANGED <<regvars, frames, lock, capvars, connvars>>
    /\ UNCHANGED <<sysvars, server_closed>>

\* faulty variant: one failure evicts the whole snapshot
FailedSocketsAll(b) ==
    IF \E ws \in b.sockets : b.results[ws] = "False" THEN b.sockets ELSE {}

FailedSockets(b) == {ws \in b.sockets : b.results[ws] = "False"}

\* gather has returned every result: the eviction loop under the lock (no await
\* inside the block), then the coroutine ends
Evict(id) ==
    /\ id \in DOMAIN broadcasts
    /\ broadcasts[id].pc = "gather"
    /\ \A ws \in broadcasts[id].sockets : broadcasts[id].results[ws] # "pending"
    /\ lock = "free"
    /\ SetRegistry(EvictFailed(Registry, FailedSockets(broadcasts[id])))
    /\ broadcasts' = DictDel(broadcasts, id)
    /\ UNCHANGED <<frames, lock, capvars, connvars, sent>>
    /\ UNCHANGED <<sysvars, server_closed>>

\* ------------------------------------------------------------------- Next
Next ==
    \/ \E c \in Conns : ClientClose(c)
    \/ \E c \in Conns : Stall(c)
    \/ \E c \in Conns, q \in ReqQualities : Connect(c, q)
    \/ \E c \in Conns : Register(c)
    \/ \E c \in Conns : Cleanup(c)
    \/ \E ok \in BOOLEAN : CameraRead(ok)
    \/ SnapshotAcquire
    \/ Snapshot
    \/ EncodeAcquire
    \/ StoreSpawn
    \/ Pace
    \/ \E id \in DOMAIN broadcasts : ThreadAcquire(id)
    \/ \E id \in DOMAIN broadcasts : ThreadSnapshot(id)
    \/ \E id \in DOMAIN broadcasts, ws \in Conns : SafeSend(id, ws)
    \/ \E id \in DOMAIN broadcasts : Evict(id)

Spec == Init /\ [][Next]_vars

\* ------------------------------------------------ the stalled-client runs
\* The runs in which every client asks for the same valid quality, so that all
\* connections are subscribers of the same broadcasts.
StallQuality == MinQuality

StallNext ==
    \/ \E c \in Conns : ClientClose(c)
    \/ \E c \in Conns : Stall(c)
    \/ \E c \in Conns : Connect(c, StallQuality)
    \/ \E c \in Conns : Register(c)
    \/ \E c \in Conns : Cleanup(c)
    \/ \E ok \in BOOLEAN : CameraRead(ok)
    \/ SnapshotAcquire
    \/ Snapshot
    \/ EncodeAcquire
    \/ StoreSpawn
    \/ Pace
    \/ \E id \in DOMAIN broadcasts : ThreadAcquire(id)
    \/ \E id \in DOMAIN broadcasts : ThreadSnapshot(id)
    \/ \E id \in DOMAIN broadcasts, ws \in Conns : SafeSend(id, ws)
    \/ \E id \in DOMAIN broadcasts : Evict(id)

\* The broadcasts the bounded capture loop can start in these runs.
BroadcastIds == (1..MaxCycles) \X {StallQuality}

\* The capture thread and the broadcast threads are scheduled by the OS, the
\* coroutines by the event loop: each keeps running while it can take a step.
\* Nothing is assumed of the clients.
Fairness ==
    /\ WF_vars(\E ok \in BOOLEAN : CameraRead(ok))
    /\ WF_vars(SnapshotAcquire)
    /\ WF_vars(Snapshot)
    /\ WF_vars(EncodeAcquire)
    /\ WF_vars(StoreSpawn)
    /\ WF_vars(Pace)
    /\ \A c \in Conns : WF_vars(Register(c))
    /\ \A c \in Conns : WF_vars(Cleanup(c))
    /\ \A id \in BroadcastIds : WF_vars(ThreadAcquire(id))
    /\ \A id \in BroadcastIds : WF_vars(ThreadSnapshot(id))
    /\ \A id \in BroadcastIds : WF_vars(Evict(id))
    /\ \A id \in BroadcastIds : \A ws \in Conns : WF_vars(SafeSend(id, ws))

FairSpec == Init /\ [][StallNext]_vars /\ Fairness

\* ------------------------------------------------------- the timed runs
\* Time passes while the capture thread works or is kept from running.
Tick ==
    /\ now < MaxTime
    /\ now' = now + 1
    /\ UNCHANGED <<regvars, frames, lock, capvars, broadcasts, connvars, sent,
                   shutdown_pc, camera, server_closed>>

\* The capture loop against the clock, with clients that subscribe at one
\* quality and leave; the broadcast threads it starts are not followed.
PaceNext ==
    \/ Tick
    \/ \E c \in Conns : Connect(c, StallQuality)
    \/ \E c \in Conns : Register(c)
    \/ \E c \in Conns : ClientClose(c)
    \/ \E c \in Conns : Cleanup(c)
    \/ \E ok \in BOOLEAN : CameraRead(ok)
    \/ SnapshotAcquire
    \/ Snapshot
    \/ EncodeAcquire
    \/ StoreSpawn
    \/ Pace

PaceSpec == Init /\ [][PaceNext]_vars

\* ------------------------------------------------------- the shutdown runs
\* camera.read() is a blocking call of the capture thread: it is entered here
\* and returns in CameraReadEnd. A read entered while camera.release() runs
\* in another thread works on a handle in an undefined state.
CameraReadBegin ==
    /\ cap_pc = "read"
    /\ cycle < MaxCycles
    /\ start_time' = now
    /\ start_wanted' = Demanded
    /\ camera' = IF shutdown_pc = "releasing" THEN "undefined" ELSE camera
    /\ cap_pc' = "reading"
    /\ UNCHANGED <<regvars, frames, lock, cycle, ret, required_qualities, qi, snap_wanted,
                   last_time, broadcasts, connvars, sent, now, shutdown_pc, server_closed>>

\* What camera.read() can return: a frame or no frame from an opened camera,
\* no frame from a released one, and anything, a fault of the native call
\* included, from a handle that was released during the read.
ReadOutcomes(cam) ==
    IF cam = "opened" THEN {"frame", "none"}
    ELSE IF cam = "released" THEN {"none"}
    ELSE {"frame", "none", "fault"}

\* ret, frame = camera.read() returns; if not ret: continue
CameraReadEnd(out) ==
    /\ cap_pc = "reading"
    /\ out \in ReadOutcomes(camera)
    /\ cycle' = cycle + 1
    /\ ret' = (out = "frame")
    /\ cap_pc' = IF out = "fault" THEN "crashed" ELSE AfterRead(out = "frame")
    /\ camera' = IF shutdown_pc = "released" THEN "released" ELSE camera
    /\ UNCHANGED <<regvars, frames, lock, required_qualities, qi, start_wanted, snap_wanted,
                   start_time, last_time, broadcasts, connvars, sent, now, shutdown_pc,
                   server_closed>>

\* shutdown_event, run by the server in the event-loop thread, enters
\* camera.release(); nothing makes it wait for the capture thread
ShutdownBegin ==
    /\ shutdown_pc = "up"
    /\ shutdown_pc' = "releasing"
    /\ camera' = IF cap_pc = "reading" THEN "undefined" ELSE camera
    /\ UNCHANGED <<regvars, frames, lock, capvars, broadcasts, connvars, sent, now,
                   server_closed>>

\* camera.release() returns
ShutdownEnd ==
    /\ shutdown_pc = "releasing"
    /\ shutdown_pc' = "released"
    /\ camera' = IF cap_pc = "reading" /\ camera = "undefined" THEN "undefined" ELSE "released"
    /\ UNCHANGED <<regvars, frames, lock, capvars, broadcasts, connvars, sent, now,
                   server_closed>>

\* The capture loop with its blocking camera read, the server shutting down
\* at any moment, and clients that subscribe at one quality and leave.
ShutdownNext ==
    \/ ShutdownBegin
    \/ ShutdownEnd
    \/ CameraReadBegin
    \/ \E out \in {"frame", "none", "fault"} : CameraReadEnd(out)
    \/ SnapshotAcquire
    \/ Snapshot
    \/ EncodeAcquire
    \/ StoreSpawn
    \/ Pace
    \/ \E c \in Conns : Connect(c, StallQuality)
    \/ \E c \in Conns : Register(c)
    \/ \E c \in Conns : ClientClose(c)
    \/ \E c \in Conns : Cleanup(c)

ShutdownSpec == Init /\ [][ShutdownNext]_vars

\* ================================================================ claims
Count(q) == CounterGet(frames_needed, q)
Registered(c) == hpc[c] \in {"serving", "closed"}
Evicted(c) == Registered(c) /\ hpc[c] # "closed" /\ c \notin DOMAIN active_sockets
\* every quality a connection of the model can present
QualityRange == ReqQualities
Delivered(ws, id, data) == \E i \in 1..Len(sent[ws]) : sent[ws][i] = <<id, data>>

\* C1: for every quality q the demand counter frames_needed[q] is never negative
\* and equals the number of connections of active_sockets whose quality is q.
C1_DemandCountsSubscribers ==
    \A q \in QualityRange :
        /\ Count(q) >= 0
        /\ Count(q) = Cardinality({c \in DOMAIN active_sockets : active_sockets[c] = q})

\* C1 witness: a broadcast has evicted one connection while another connection
\* of the same quality is still registered.
C1_Witness ==
    \E c1, c2 \in Conns :
        /\ Evicted(c1)
        /\ c2 \in DOMAIN active_sockets
        /\ active_sockets[c2] = quality[c1]

\* C2: however the handler's cleanup and the broadcast evictions of one
\* connection interleave, the connection leaves active_sockets once and the
\* counter of its quality is decremented for it exactly once; further removal
\* attempts change nothing.
C2_RemovedExactlyOnce ==
    /\ \A c \in Conns :
        /\ ndec[c] <= 1
        /\ ndec[c] <= attempts[c]
        /\ c \in DOMAIN active_sockets => ndec[c] = 0
        /\ (Registered(c) /\ c \notin DOMAIN active_sockets) => ndec[c] = 1
    /\ \A q \in QualityRange :
        Count(q) = Cardinality({c \in Conns : Registered(c) /\ quality[c] = q})
                   - Cardinality({c \in Conns : quality[c] = q /\ ndec[c] >= 1})

\* C2 witness: the cleanup path and at least one broadcast have both tried to
\* remove the same connection, and another connection keeps the counter positive.
C2_Witness ==
    \E c1, c2 \in Conns :
        /\ hpc[c1] = "closed"
        /\ attempts[c1] >= 2
        /\ c2 \in DOMAIN active_sockets
        /\ active_sockets[c2] = quality[c1]

\* C3: registering a connection and then removing it gives back the connection
\* set and every demand counter, and removing a connection twice gives the
\* state that removing it once gives.
C3_SubscribeUnsubscribe ==
    /\ \A c \in Conns \ DOMAIN active_sockets : \A q \in {x \in QualityRange : x >= MinQuality /\ x <= MaxQuality} :
        LET r1 == Subscribe(Registry, c, q)
            r2 == Unsubscribe(r1, c)
        IN /\ c \in DOMAIN r1.as
           /\ CounterGet(r1.fn, q) = Count(q) + 1
           /\ r2.as = active_sockets
           /\ \A x \in QualityRange : CounterGet(r2.fn, x) = Count(x)
    /\ \A c \in Conns :
        LET r1 == Unsubscribe(Registry, c)
            r2 == Unsubscribe(r1, c)
        IN r2.as = r1.as /\ r2.fn = r1.fn

\* C3 witness: a connection has been registered and removed again while the
\* counter of its quality still counts another connection.
C3_Witness ==
    \E c1, c2 \in Conns :
        /\ Registered(c1)
        /\ c1 \notin DOMAIN active_sockets
        /\ c2 \in DOMAIN active_sockets
        /\ Count(quality[c1]) = 1
        /\ active_sockets[c2] = quality[c1]
        /\ hpc[c2] = "serving"
        /\ transport[c2] = "open"

\* C4: a connection asking for a quality below 30 or above 95 ends rejected,
\* is never in active_sockets, never counted, never in a broadcast snapshot and
\* never sent a frame; a connection asking for 30 or 95 is not rejected and,
\* once past registration, has been inserted.
C4_QualityValidation ==
    \A c \in Conns : hpc[c] # "idle" =>
        /\ (quality[c] < MinQuality \/ quality[c] > MaxQuality) =>
              /\ hpc[c] = "rejected"
              /\ c \notin DOMAIN active_sockets
              /\ Count(quality[c]) = 0
              /\ sent[c] = <<>>
              /\ attempts[c] = 0
              /\ \A id \in DOMAIN broadcasts : c \notin broadcasts[id].sockets
        /\ quality[c] \in {MinQuality, MaxQuality} =>
              /\ hpc[c] # "rejected"
              /\ hpc[c] \in {"serving", "closed"} =>
                    (c \in DOMAIN active_sockets \/ ndec[c] = 1)

\* C4 witness: one connection asked for 29 or 96 and was rejected while one
\* asking for a boundary quality is registered and has been sent a frame.
C4_Witness ==
    \E c1, c2 \in Conns :
        /\ quality[c1] \in {MinQuality - 1, MaxQuality + 1}
        /\ hpc[c1] = "rejected"
        /\ quality[c2] \in {MinQuality, MaxQuality}
        /\ c2 \in DOMAIN active_sockets
        /\ sent[c2] # <<>>

\* C5: when a broadcast whose snapshot has exactly one failed send runs its
\* eviction, every other connection of the snapshot has been sent the
\* broadcast's frame and the eviction removes the failed connection only.
C5_OnlyBrokenEvicted ==
    [][\A id \in DOMAIN broadcasts :
          (broadcasts[id].pc = "gather" /\ id \notin DOMAIN broadcasts') =>
             LET b == broadcasts[id]
                 broken == {ws \in b.sockets : b.results[ws] = "False"}
             IN Cardinality(broken) = 1 =>
                   /\ \A ws \in b.sockets \ broken : Delivered(ws, id, b.frame_data)
                   /\ DOMAIN active_sockets' = DOMAIN active_sockets \ broken]_vars

\* C5 witness: a broadcast is about to evict with a snapshot of two connections,
\* one failed and still registered, the other sent the frame.
C5_Witness ==
    \E id \in DOMAIN broadcasts :
        /\ broadcasts[id].pc = "gather"
        /\ Cardinality(broadcasts[id].sockets) >= 2
        /\ Cardinality({ws \in broadcasts[id].sockets :
                            broadcasts[id].results[ws] = "False"}) = 1
        /\ \A ws \in broadcasts[id].sockets : broadcasts[id].results[ws] # "pending"
        /\ broadcasts[id].sockets \subseteq DOMAIN active_sockets

\* C7: every message sent to a connection is an encoding made by the capture
\* loop at the quality the connection subscribed at, never the empty default
\* and never an encoding at another quality.
C7_SentFramesMatchQuality ==
    /\ \A c \in Conns : \A i \in 1..Len(sent[c]) :
        LET data == sent[c][i][2] IN
        /\ data # EmptyBytes
        /\ \E k \in 1..cycle : data = Encode(k, quality[c])
    /\ \A id \in DOMAIN broadcasts :
        broadcasts[id].pc = "gather" =>
            broadcasts[id].frame_data # EmptyBytes

\* C7 witness: connections of two different qualities have each been sent a frame.
C7_Witness ==
    \E c1, c2 \in Conns :
        /\ quality[c1] # quality[c2]
        /\ sent[c1] # <<>>
        /\ sent[c2] # <<>>

\* C8: two connections that are sent a frame by the broadcast of the same
\* cycle and quality are sent the same bytes.
C8_SamePayloadPerBroadcast ==
    \A c1, c2 \in Conns : \A i \in 1..Len(sent[c1]) : \A j \in 1..Len(sent[c2]) :
        sent[c1][i][1] = sent[c2][j][1] => sent[c1][i][2] = sent[c2][j][2]

\* C8 witness: two connections were sent a frame by one broadcast after the
\* cache entry of its quality had been overwritten by a later cycle.
C8_Witness ==
    \E c1, c2 \in Conns : \E i \in 1..Len(sent[c1]) : \E j \in 1..Len(sent[c2]) :
        /\ c1 # c2
        /\ sent[c1][i][1] = sent[c2][j][1]
        /\ sent[c1][i][1][2] \in DOMAIN frames
        /\ frames[sent[c1][i][1][2]] # sent[c1][i][2]

\* C9 as stated: at the end of a cycle whose read succeeded, every quality with
\* positive demand when the cycle started has this cycle's encoding in frames.
C9_Original ==
    (cap_pc = "pace" /\ ret) =>
        \A q \in start_wanted : q \in DOMAIN frames /\ frames[q] = Encode(cycle, q)

\* C9 amended: at the end of a cycle whose read succeeded, every quality with
\* positive demand when the cycle's list of required qualities was built has
\* this cycle's encoding in frames.
C9_SnapshotDemandEncoded ==
    (cap_pc = "pace" /\ ret) =>
        \A q \in snap_wanted : q \in DOMAIN frames /\ frames[q] = Encode(cycle, q)

\* C9 witness: a cycle ends having encoded two qualities while connections
\* came and went during it.
C9_Witness ==
    /\ cap_pc = "pace"
    /\ Cardinality(snap_wanted) = 2
    /\ Demanded # snap_wanted

\* C10: a cycle whose camera read failed stores no frame and starts no
\* broadcast, and leaves the loop at the next camera read.
C10_FailedReadSkipsCycle ==
    ~ret =>
        /\ cap_pc = "read"
        /\ lock # "capture"
        /\ \A q \in DOMAIN frames : frames[q][1] # cycle
        /\ \A id \in DOMAIN broadcasts : id[1] # cycle
        /\ cycle < MaxCycles => ENABLED CameraRead(TRUE)

\* C10 witness: a read fails after a cycle that encoded a frame and started a
\* broadcast that is still in flight.
C10_Witness ==
    /\ ~ret
    /\ cycle >= 2
    /\ frames # <<>>
    /\ DOMAIN broadcasts # {}
    /\ Demanded # {}
SentBy(ws, id) == \E i \in 1..Len(sent[ws]) : sent[ws][i][1] = id
AwaitsSend(id, ws) ==
    /\ id \in DOMAIN broadcasts
    /\ broadcasts[id].pc = "gather"
    /\ ws \in broadcasts[id].sockets
    /\ broadcasts[id].results[ws] = "pending"

\* C6: under fair scheduling the capture loop always comes back to its next
\* camera read and makes all its cycles, and every send gathered by a
\* broadcast to a connection whose transport stays open is performed, also
\* when another send of the same or of an earlier broadcast blocks for ever.
C6_StalledSendBlocksNobody ==
    /\ <>(cycle = MaxCycles /\ cap_pc = "read")
    /\ \A id \in BroadcastIds : \A ws \in Conns :
          (AwaitsSend(id, ws) /\ transport[ws] = "open")
              ~> (SentBy(ws, id) \/ transport[ws] # "open")

\* C6 witness: a send to a stalled connection is still pending while another
\* connection of the same snapshot has been sent that broadcast's frame and
\* the frame of a later cycle's broadcast.
C6_Witness ==
    \E id \in DOMAIN broadcasts : \E s, w \in Conns : \E later \in BroadcastIds :
        /\ AwaitsSend(id, s)
        /\ transport[s] = "stalled"
        /\ w \in broadcasts[id].sockets
        /\ SentBy(w, id)
        /\ later[1] > id[1]
        /\ later[2] = id[2]
        /\ SentBy(w, later)

\* C11: whenever a cycle completes, overrun or not, the deadline becomes the
\* previous deadline plus the interval, whatever the clock reads.
C11_DeadlineAdvancesByInterval ==
    [][last_time' # last_time \/ (cap_pc = "pace" /\ cap_pc' = "read")
          => last_time' = last_time + Interval]_vars

\* C11 witness: the first cycle has completed and moved the deadline by one
\* interval, and the second cycle has overrun: it reaches the pacing block
\* more than an interval after its start, the clock already past the
\* deadline that the block is about to set.
C11_Witness ==
    /\ cap_pc = "pace"
    /\ cycle = 2
    /\ last_time = Interval
    /\ now - start_time > Interval
    /\ now > last_time + Interval

\* C14 as stated: the loop is at a camera read only after it has paced every
\* cycle before it, a cycle whose read failed included, so that the deadline
\* has advanced by one interval per cycle.
C14_Original ==
    cap_pc = "read" => last_time = cycle * Interval

\* C15 as stated: a cycle that finishes within the period and before its
\* deadline is followed by a cycle start on the grid: the pacing block
\* returns exactly at the deadline it sets, also when the cycle itself
\* started late because an earlier cycle overran.
C15_Original ==
    [][(cap_pc = "pace" /\ cap_pc' = "read"
           /\ now - start_time < Interval /\ now <= last_time + Interval)
          => now' = last_time']_vars

\* the broadcast units in flight (threads and their send coroutines) of a quality
InFlight(q) == {id \in DOMAIN broadcasts : id[2] = q}

\* C12 as stated: a constant bounds the broadcast units in flight whatever the
\* number of capture cycles: the units of one quality in flight at the same
\* time are fewer than the cycles the loop makes.
C12_Original ==
    \A q \in QualityRange : Cardinality(InFlight(q)) < MaxCycles

\* C13 as stated: in no reachable state, shutdown included, is the camera
\* being released by one context while the capture thread is inside a read.
C13_Original ==
    ~(cap_pc = "reading" /\ shutdown_pc = "releasing")

\* C16 as stated: the step that finishes a broadcast leaves every connection
\* of its snapshot whose send failed out of the connection set and with its
\* transport closed by the server.
C16_Original ==
    [][\A id \in DOMAIN broadcasts :
          id \notin DOMAIN broadcasts'
              => \A ws \in FailedSockets(broadcasts[id]) :
                    /\ ws \notin DOMAIN active_sockets'
                    /\ ws \in server_closed']_vars

\* C17: a step of the capture loop writes the cache entry of a quality q or
\* starts a broadcast unit for q only in a cycle whose read succeeded and
\* whose snapshot, taken earlier in the same cycle, had positive demand for q;
\* so a cycle whose snapshot has no demanded quality goes straight to pacing
\* and writes and starts nothing.
C17_WorkOnlyForSnapshotDemand ==
    [][/\ \A q \in QualityRange :
            (DictGet(frames', q, EmptyBytes) # DictGet(frames, q, EmptyBytes)
                \/ (<<cycle, q>> \in DOMAIN broadcasts' /\ <<cycle, q>> \notin DOMAIN broadcasts))
            => /\ q \in snap_wanted
               /\ ret
               /\ cycle' = cycle
               /\ snap_wanted' = snap_wanted
               /\ frames'[q] = Encode(cycle, q)
       /\ (cap_pc = "snapshot_cs" /\ cap_pc' # cap_pc /\ Demanded = {})
            => (cap_pc' = "pace" /\ frames' = frames /\ broadcasts' = broadcasts)
       /\ (cap_pc' \in {"encode", "store_cs"}) => snap_wanted' # {}]_vars

\* C17 witness: the second cycle has taken a snapshot without any demanded
\* quality, although the counter still holds the key of the quality the first
\* cycle encoded, and has gone to pacing with the cache left as it was.
C17_Witness ==
    /\ cycle = 2
    /\ cap_pc = "pace"
    /\ ret
    /\ snap_wanted = {}
    /\ frames_needed # <<>>
    /\ \E q \in QualityRange : q \in DOMAIN frames /\ frames[q] = Encode(1, q)

\* the demand counter counts exactly the connections of the set
CounterExact(q) ==
    Count(q) = Cardinality({d \in DOMAIN active_sockets : active_sockets[d] = q})

\* C18: under fair scheduling every registered connection whose session has
\* closed is eventually out of the connection set, with its handler finished
\* and the counter of its quality counting only the connections still in the
\* set, whether or not a broadcast removed it first.
C18_ClosedIsEventuallyRemoved ==
    \A c \in Conns :
        (hpc[c] = "serving" /\ transport[c] = "closed")
            ~> (/\ hpc[c] = "closed"
                /\ c \notin DOMAIN active_sockets
                /\ CounterExact(quality[c]))

\* C18 witness: the handler of a connection whose session closed has finished
\* after a broadcast had already removed the connection, and another
\* connection is still registered at the same quality.
C18_Witness ==
    \E c, d \in Conns :
        /\ hpc[c] = "closed"
        /\ attempts[c] = 2
        /\ ndec[c] = 1
        /\ d \in DOMAIN active_sockets
        /\ active_sockets[d] = quality[c]

\* C19 as stated: the frames sent to a connection are in capture order.
C19_Original ==
    \A c \in Conns : \A i, j \in 1..Len(sent[c]) :
        i < j => sent[c][i][2][1] <= sent[c][j][2][1]

\* the broadcast threads inside their "with lock:" block
ThreadsInBlock == {id \in DOMAIN broadcasts : broadcasts[id].pc = "snap_cs"}

\* C20: the lock is held only by a context that is inside one of its
\* "with lock:" blocks, and the step that leaves the block is then enabled
\* whatever the other contexts do; when the lock is free every context
\* waiting for it can take it.
C20_LockNeverDeadlocks ==
    /\ lock \in {"free", "capture", "thread"}
    /\ lock = "capture" <=> cap_pc \in {"snapshot_cs", "store_cs"}
    /\ lock = "thread" <=> ThreadsInBlock # {}
    /\ Cardinality(ThreadsInBlock) <= 1
    /\ lock = "capture" => ENABLED (Snapshot \/ StoreSpawn)
    /\ lock = "thread" => \A id \in ThreadsInBlock : ENABLED ThreadSnapshot(id)
    /\ lock = "free" =>
          /\ cap_pc = "snapshot" => ENABLED SnapshotAcquire
          /\ cap_pc = "encode" => ENABLED EncodeAcquire
          /\ \A id \in DOMAIN broadcasts :
                broadcasts[id].pc = "start" => ENABLED ThreadAcquire(id)
          /\ \A c \in Conns : hpc[c] = "accepted" => ENABLED Register(c)
          /\ \A c \in Conns :
                (hpc[c] = "serving" /\ transport[c] = "closed") => ENABLED Cleanup(c)

\* C20 witness: a broadcast thread holds the lock while the capture thread, a
\* connecting handler and a finishing handler all wait for it.
C20_Witness ==
    /\ lock = "thread"
    /\ cap_pc \in {"snapshot", "encode"}
    /\ \E c, d \in Conns :
          /\ hpc[c] = "accepted"
          /\ hpc[d] = "serving"
          /\ transport[d] = "closed"
====
